---- MODULE Spec2Model ----
(***************************************************************************)
(* A model of kstat-rs: the Ctl handle over libkstat, the chain walker     *)
(* (Iter), the descriptor (Kstat) and the record decoder (Kstat::data).    *)
(*                                                                         *)
(* Pointers are indices: a *mut kstat_t is the position of the node in the *)
(* handle's chain, 0 is the null pointer; ks_next of the node at position  *)
(* i is i + 1, or 0 at the end of the chain.                               *)
(* Text is a sequence of bytes (0..255); a c_char buffer is a sequence of  *)
(* KSTAT_STRLEN bytes.                                                     *)
(***************************************************************************)
EXTENDS Integers, Sequences, FiniteSets, TLC

\* ------------------------------------------------------------------ bounds
MaxChain == 2
MaxSnap == 3
MaxNdata == 2
MaxEnts == 2

\* ---------------------------------------------------- libkstat-sys constants
KSTAT_TYPE_RAW == 0
KSTAT_TYPE_NAMED == 1
KSTAT_TYPE_INTR == 2
KSTAT_TYPE_IO == 3
KSTAT_TYPE_TIMER == 4

KSTAT_DATA_CHAR == 0
KSTAT_DATA_INT32 == 1
KSTAT_DATA_UINT32 == 2
KSTAT_DATA_INT64 == 3
KSTAT_DATA_UINT64 == 4
KSTAT_DATA_STRING == 9

KSTAT_STRLEN == 31

\* size_of::<T>() of the #[repr(C)] payload structures
SizeofNamed == 48
SizeofIntr == 20
SizeofIo == 80
SizeofTimer == 80

NULL == 0

\* ------------------------------------------------------------------- text
Min(a, b) == IF a <= b THEN a ELSE b

\* A KSTAT_STRLEN-byte buffer holding s followed by NUL bytes.
Buf(s) == [i \in 1..KSTAT_STRLEN |-> IF i <= Len(s) THEN s[i] ELSE 0]

\* Position of the first NUL of a byte sequence, Len + 1 when it has none.
RECURSIVE NulPos(_, _)
NulPos(mem, i) ==
    IF i > Len(mem) THEN i
    ELSE IF mem[i] = 0 THEN i
    ELSE NulPos(mem, i + 1)

\* CStr::from_ptr(p).to_bytes(): the bytes from p up to the first NUL.
CStrBytes(mem) == SubSeq(mem, 1, NulPos(mem, 1) - 1)

IsCont(b) == b >= 128 /\ b <= 191

\* str::from_utf8 on a byte string: lead byte, then its continuation bytes.
RECURSIVE Utf8Valid(_)
Utf8Valid(s) ==
    IF s = <<>> THEN TRUE
    ELSE LET b == s[1]
             n == IF b <= 127 THEN 1
                  ELSE IF b >= 194 /\ b <= 223 THEN 2
                  ELSE IF b >= 224 /\ b <= 239 THEN 3
                  ELSE IF b >= 240 /\ b <= 244 THEN 4
                  ELSE 0
         IN  /\ n > 0
             /\ Len(s) >= n
             /\ \A k \in 2..n : IsCont(s[k])
             /\ Utf8Valid(SubSeq(s, n + 1, Len(s)))

Ok(v) == [ok |-> TRUE, val |-> v]
Err(e) == [ok |-> FALSE, err |-> e]
InvalidString == [kind |-> "InvalidString", tag |-> 0]
InvalidType(t) == [kind |-> "InvalidType", tag |-> t]
InvalidNamedType(t) == [kind |-> "InvalidNamedType", tag |-> t]
NullData == [kind |-> "NullData", tag |-> 0]
IoError == [kind |-> "Io", tag |-> 0]

\* CStr::to_str mapped to Error::InvalidString
CStrToStr(mem) ==
    LET b == CStrBytes(mem)
    IN  IF Utf8Valid(b) THEN Ok(b) ELSE Err(InvalidString)

\* The offset (from 1) of the byte at which CStr::from_ptr ends its scan of
\* the memory mem: the first NUL.
CStrScan(mem) == NulPos(mem, 1)

\* kstat_str_parse: CStr::from_ptr gets the address of the buffer s and not
\* its length, so the C string is what memory holds from the first byte of s
\* to the first NUL, in s or in the bytes rest that follow s in its structure.
kstat_str_parse(s, rest) == CStrToStr(s \o rest)

\* std::cmp::Ordering
Less == "Less"
Equal == "Equal"
Greater == "Greater"

IntCmp(a, b) == IF a < b THEN Less ELSE IF a > b THEN Greater ELSE Equal

\* str::cmp: bytewise lexicographic, a proper prefix is Less.
RECURSIVE StrCmp(_, _)
StrCmp(a, b) ==
    IF a = <<>> /\ b = <<>> THEN Equal
    ELSE IF a = <<>> THEN Less
    ELSE IF b = <<>> THEN Greater
    ELSE IF a[1] # b[1] THEN IntCmp(a[1], b[1])
    ELSE StrCmp(Tail(a), Tail(b))

\* Ordering::then_with
ThenWith(o, next) == IF o # Equal THEN o ELSE next

\* --------------------------------------------------------- type conversions
\* The conversion with an unknown tag taken for a raw kstat.
Type_try_from_Default(t) ==
    IF t = KSTAT_TYPE_NAMED THEN Ok("Named")
    ELSE IF t = KSTAT_TYPE_INTR THEN Ok("Intr")
    ELSE IF t = KSTAT_TYPE_IO THEN Ok("Io")
    ELSE IF t = KSTAT_TYPE_TIMER THEN Ok("Timer")
    ELSE Ok("Raw")

\* impl TryFrom<u8> for Type
Type_try_from(t) ==
    IF t = KSTAT_TYPE_RAW THEN Ok("Raw")
    ELSE IF t = KSTAT_TYPE_NAMED THEN Ok("Named")
    ELSE IF t = KSTAT_TYPE_INTR THEN Ok("Intr")
    ELSE IF t = KSTAT_TYPE_IO THEN Ok("Io")
    ELSE IF t = KSTAT_TYPE_TIMER THEN Ok("Timer")
    ELSE Err(InvalidType(t))

\* impl TryFrom<u8> for NamedType
NamedType_try_from(t) ==
    IF t = KSTAT_DATA_CHAR THEN Ok("Char")
    ELSE IF t = KSTAT_DATA_INT32 THEN Ok("Int32")
    ELSE IF t = KSTAT_DATA_UINT32 THEN Ok("UInt32")
    ELSE IF t = KSTAT_DATA_INT64 THEN Ok("Int64")
    ELSE IF t = KSTAT_DATA_UINT64 THEN Ok("UInt64")
    ELSE IF t = KSTAT_DATA_STRING THEN Ok("String")
    ELSE Err(InvalidNamedType(t))

\* A c_int of the model's range in memory (little-endian).
I32Bytes(n) == <<n % 256, (n \div 256) % 256, 0, 0>>

\* What follows ks_name, and ks_module, in a kstat_t (up to ks_flags; every
\* record of this model has a NUL before that).
AfterName(k) == <<k.ks_type>> \o k.ks_class \o <<k.ks_flags>>
AfterModule(k) ==
    <<k.ks_resv>> \o I32Bytes(k.ks_instance) \o k.ks_name \o AfterName(k)

\* What follows name in a kstat_named_t (data_type, then the union, which
\* charc spans), and in a kstat_timer_t (the reserved byte).
AfterNamedName(k) == <<k.data_type>> \o k.value.charc
AfterTimerName(k) == <<k.resv>>

\* impl TryFrom<&sys::kstat_t> for Kstat: the fields are evaluated in the
\* order written, the first failing `?` returns its error. p is the address
\* of k (its position in the chain).
Kstat_try_from(k, p) ==
    LET module == kstat_str_parse(k.ks_module, AfterModule(k))
        name == kstat_str_parse(k.ks_name, AfterName(k))
        type == Type_try_from(k.ks_type)
        class == kstat_str_parse(k.ks_name, AfterName(k))
    IN  IF ~module.ok THEN module
        ELSE IF ~name.ok THEN name
        ELSE IF ~type.ok THEN type
        ELSE IF ~class.ok THEN class
        ELSE Ok([ks_crtime |-> k.ks_crtime,
                 ks_snaptime |-> k.ks_snaptime,
                 ks_module |-> module.val,
                 ks_instance |-> k.ks_instance,
                 ks_name |-> name.val,
                 ks_type |-> type.val,
                 ks_class |-> class.val,
                 ks |-> p])

\* impl Ord for Kstat
Kstat_cmp(self, other) ==
    ThenWith(StrCmp(self.ks_class, other.ks_class),
    ThenWith(StrCmp(self.ks_module, other.ks_module),
    ThenWith(IntCmp(self.ks_instance, other.ks_instance),
    ThenWith(StrCmp(self.ks_name, other.ks_name),
             StrCmp(self.ks_class, other.ks_name)))))

\* Option<&str>, Option<i32>
Some(x) == [some |-> TRUE, v |-> x]
NoneStr == [some |-> FALSE, v |-> <<>>]
NoneInt == [some |-> FALSE, v |-> 0]

\* The closure of Ctl::filter: opt.map(|x| x == field).unwrap_or(true), or-ed.
FilterPred(module, instance, name, kstat) ==
    \/ (IF module.some THEN module.v = kstat.ks_module ELSE TRUE)
    \/ (IF instance.some THEN instance.v = kstat.ks_instance ELSE TRUE)
    \/ (IF name.some THEN name.v = kstat.ks_name ELSE TRUE)

\* ------------------------------------------------------------ the decoder
\* What Ctl::read hands back: Ok(Data::variant(items)), Err(err), or a panic
\* (control does not return to the caller). extent is the number of payload
\* elements of the slice the decoder built over ks_data.
NoErr == [kind |-> "", tag |-> 0]
NoRes == [kind |-> "None", variant |-> "", items |-> <<>>, err |-> NoErr, extent |-> 0]
OkRes(variant, items, n) ==
    [kind |-> "Ok", variant |-> variant, items |-> items, err |-> NoErr, extent |-> n]
ErrRes(e) == [kind |-> "Err", variant |-> "", items |-> <<>>, err |-> e, extent |-> 0]
PanicRes == [kind |-> "Panic", variant |-> "", items |-> <<>>, err |-> NoErr, extent |-> 0]

\* NamedData::data_type: the variant of the value (the field type of the
\* model's record) to its NamedType.
NamedData_data_type(value) ==
    CASE value.type = "Char" -> "Char"
      [] value.type = "Int32" -> "Int32"
      [] value.type = "UInt32" -> "UInt32"
      [] value.type = "Int64" -> "Int64"
      [] value.type = "UInt64" -> "UInt64"
      [] value.type = "String" -> "String"

\* Named::data_type
Named_data_type(self) == NamedData_data_type(self)

\* The conversion with the type tag converted before the name is parsed.
Named_try_from_TagFirst(k) ==
    LET name == kstat_str_parse(k.name, AfterNamedName(k))
        type == NamedType_try_from(k.data_type)
    IN  IF ~type.ok THEN type
        ELSE IF ~name.ok THEN name
        ELSE IF type.val = "String"
             THEN LET data_str == CStrToStr(k.value.str)
                  IN  IF ~data_str.ok THEN data_str
                      ELSE Ok([name |-> name.val, type |-> "String",
                               value |-> data_str.val])
        ELSE IF type.val = "Char"
             THEN Ok([name |-> name.val, type |-> "Char", value |-> k.value.charc])
        ELSE Ok([name |-> name.val, type |-> type.val, value |-> k.value.num])

\* impl TryFrom<&sys::kstat_named_t> for Named: the name, then the tag, then
\* the arm of the tag's NamedType, which builds the NamedData of its variant.
Named_try_from(k) ==
    LET name == kstat_str_parse(k.name, AfterNamedName(k))
        type == NamedType_try_from(k.data_type)
    IN  IF ~name.ok THEN name
        ELSE IF ~type.ok THEN type
        ELSE CASE type.val = "Char" ->
                    Ok([name |-> name.val, type |-> "Char", value |-> k.value.charc])
               [] type.val = "Int32" ->
                    Ok([name |-> name.val, type |-> "Int32", value |-> k.value.num])
               [] type.val = "UInt32" ->
                    Ok([name |-> name.val, type |-> "UInt32", value |-> k.value.num])
               [] type.val = "Int64" ->
                    Ok([name |-> name.val, type |-> "Int64", value |-> k.value.num])
               [] type.val = "UInt64" ->
                    Ok([name |-> name.val, type |-> "UInt64", value |-> k.value.num])
               [] type.val = "String" ->
                    LET data_str == CStrToStr(k.value.str)
                    IN  IF ~data_str.ok THEN data_str
                        ELSE Ok([name |-> name.val, type |-> "String",
                                 value |-> data_str.val])

\* impl TryFrom<&sys::kstat_timer_t> for Timer
Timer_try_from(k) ==
    LET name == kstat_str_parse(k.name, AfterTimerName(k))
    IN  IF ~name.ok THEN name
        ELSE Ok([name |-> name.val,
                 num_events |-> k.num_events,
                 elapsed_time |-> k.elapsed_time,
                 min_time |-> k.min_time,
                 max_time |-> k.max_time,
                 start_time |-> k.start_time,
                 stop_time |-> k.stop_time])

\* impl From<&sys::kstat_intr_t> for Intr
Intr_from(k) ==
    [hard |-> k.intr_hard, soft |-> k.intr_soft, watchdog |-> k.intr_watchdog,
     spurious |-> k.intr_spurious, multisvc |-> k.intr_multisvc]

\* impl From<&sys::kstat_io_t> for Io
Io_from(k) ==
    [nread |-> k.nread, nwritten |-> k.nwritten, reads |-> k.reads,
     writes |-> k.writes, wtime |-> k.wtime, wlentime |-> k.wlentime,
     wlastupdate |-> k.wlastupdate, rtime |-> k.rtime, rlentime |-> k.rlentime,
     rlastupdate |-> k.rlastupdate, wcnt |-> k.wcnt, rcnt |-> k.rcnt]

\* iter().map(f).collect::<Result<Vec<_>, _>>() over the first n elements of
\* mem: the first error in payload order is the result. f is "Named" or
\* "Timer". An element past the end of mem is memory outside the payload.
OutOfPayload == [oob |-> TRUE]
RECURSIVE Collect(_, _, _, _, _)
Collect(f, mem, k, n, acc) ==
    IF k > n THEN Ok(acc)
    ELSE IF k > Len(mem) THEN Collect(f, mem, k + 1, n, Append(acc, OutOfPayload))
    ELSE LET r == IF f = "Named" THEN Named_try_from(mem[k])
                  ELSE Timer_try_from(mem[k])
         IN  IF ~r.ok THEN r
             ELSE Collect(f, mem, k + 1, n, Append(acc, r.val))

\* The element count taken from the declared count alone.
NamedCount_Reported(ks) == ks.ks_ndata

\* The element count Kstat::data uses for a named kstat.
NamedCount(ks) ==
    LET reported_count == ks.ks_ndata
        actual_count == ks.ks_data_size \div SizeofNamed
    IN  Min(reported_count, actual_count)

\* std::slice::from_raw_parts on a null ks_data is undefined behaviour, also
\* for length 0: a release build goes on with an empty slice, a build with
\* debug assertions panics. The set of results: the normal one, and a panic
\* when the pointer is null.
FromRawParts(ks, normal) ==
    IF ks.ks_data.null THEN {normal, PanicRes} ELSE {normal}

\* The match of Kstat::data on the descriptor's type, over the node ks: the
\* set of results the call can have.
Decode(ks_type, ks) ==
    LET mem == ks.ks_data.mem
    IN  CASE ks_type = "Raw" ->
               IF ks.ks_ndata = 0 THEN {OkRes("Raw", <<>>, 0)}
               ELSE LET item_size == ks.ks_data_size \div ks.ks_ndata
                        out == [i \in 1..ks.ks_ndata |->
                                  SubSeq(mem, (i - 1) * item_size + 1, i * item_size)]
                    IN  FromRawParts(ks, OkRes("Raw", out, ks.ks_ndata * item_size))
          [] ks_type = "Named" ->
               LET count == NamedCount(ks)
                   r == Collect("Named", mem, 1, count, <<>>)
               IN  FromRawParts(ks, IF r.ok THEN OkRes("Named", r.val, count)
                                    ELSE ErrRes(r.err))
          [] ks_type = "Intr" ->
               IF ks.ks_ndata # 1 THEN {PanicRes}
               ELSE IF ks.ks_data_size # SizeofIntr THEN {PanicRes}
               ELSE IF ks.ks_data.null THEN {PanicRes}
               ELSE {OkRes("Intr", <<Intr_from(mem[1])>>, 1)}
          [] ks_type = "Io" ->
               IF ks.ks_ndata # 1 THEN {PanicRes}
               ELSE IF ks.ks_data_size # SizeofIo THEN {PanicRes}
               ELSE IF ks.ks_data.null THEN {PanicRes}
               ELSE {OkRes("Io", <<Io_from(mem[1])>>, 1)}
          [] ks_type = "Timer" ->
               IF ks.ks_data_size # ks.ks_ndata * SizeofTimer THEN {PanicRes}
               ELSE LET r == Collect("Timer", mem, 1, ks.ks_ndata, <<>>)
                    IN  FromRawParts(ks, IF r.ok THEN OkRes("Timer", r.val, ks.ks_ndata)
                                         ELSE ErrRes(r.err))

\* Kstat::data with the Timer arm wrapping its records in Data::Named.
Kstat_data_TimerAsNamed(self, chain) ==
    IF self.ks = NULL THEN {ErrRes(NullData)}
    ELSE {[r EXCEPT !.variant = IF @ = "Timer" THEN "Named" ELSE @] :
            r \in Decode(self.ks_type, chain[self.ks])}

\* Kstat::data
Kstat_data(self, chain) ==
    IF self.ks = NULL THEN {ErrRes(NullData)}
    ELSE Decode(self.ks_type, chain[self.ks])

\* ------------------------------------------------------- the kernel's data
\* Byte strings used in the kernel's records: "a", "ab", "b", and a byte
\* that is no UTF-8.
StrA == <<97>>
StrAB == <<97, 98>>
StrB == <<98>>
StrBad == <<255>>
\* KSTAT_STRLEN bytes "a": a text that fills its buffer, leaving no NUL in it.
StrFull == [i \in 1..KSTAT_STRLEN |-> 97]

NullPtr == [null |-> TRUE, mem |-> <<>>]

\* A kstat_t as kstat_open links it into the chain: ks_data is null until
\* kstat_read; kmem is the payload the kernel holds for it.
MkNode(module, instance, name, type, class, ndata, size, kmem) ==
    [ks_crtime |-> 1, ks_module |-> Buf(module), ks_resv |-> 0,
     ks_instance |-> instance,
     ks_name |-> Buf(name), ks_type |-> type, ks_class |-> Buf(class),
     ks_flags |-> 0, ks_data |-> NullPtr, ks_ndata |-> ndata, ks_data_size |-> size,
     ks_snaptime |-> 2, kmem |-> kmem]

NamedInt == [name |-> Buf(StrA), data_type |-> KSTAT_DATA_INT32,
             value |-> [charc |-> <<>>, num |-> 7, str |-> <<0>>]]
NamedStr == [name |-> Buf(StrB), data_type |-> KSTAT_DATA_STRING,
             value |-> [charc |-> <<>>, num |-> 0, str |-> <<97, 0>>]]
NamedBadName == [name |-> Buf(StrBad), data_type |-> 7,
                 value |-> [charc |-> <<>>, num |-> 7, str |-> <<0>>]]
NamedBadStr == [name |-> Buf(StrA), data_type |-> KSTAT_DATA_STRING,
                value |-> [charc |-> <<>>, num |-> 0, str |-> <<255, 0>>]]
NamedBadTag == [name |-> Buf(StrA), data_type |-> 7,
                value |-> [charc |-> <<>>, num |-> 7, str |-> <<0>>]]
\* Entries of a named kstat: an integer, a string, one whose name is no UTF-8
\* and whose tag is outside the enumeration, one with only such a tag, and a
\* string whose value is no UTF-8.
NamedSamples == {NamedInt, NamedStr, NamedBadName, NamedBadTag, NamedBadStr}

TimerOf(name) ==
    [name |-> Buf(name), resv |-> 0, num_events |-> 1, elapsed_time |-> 2, min_time |-> 3,
     max_time |-> 4, start_time |-> 5, stop_time |-> 6]
TimerSamples == {TimerOf(StrA), TimerOf(StrBad)}

IntrSample == [intr_hard |-> 1, intr_soft |-> 2, intr_watchdog |-> 3,
               intr_spurious |-> 4, intr_multisvc |-> 5]
IoSample == [nread |-> 1, nwritten |-> 2, reads |-> 3, writes |-> 4, wtime |-> 5,
             wlentime |-> 6, wlastupdate |-> 7, rtime |-> 8, rlentime |-> 9,
             rlastupdate |-> 10, wcnt |-> 11, rcnt |-> 12]

SeqsUpTo(S, n) == UNION {[1..k -> S] : k \in 0..n}
SeqsOf(S, n) == [1..n -> S]

\* The records of the chains that are walked and filtered: three well-formed
\* ones (the last with a payload that does not fit its type), one whose module
\* is no UTF-8, one with a type tag outside the enumeration, one whose name
\* fills its buffer, and none sharing its (module, instance, name) with
\* another.
WalkNodes ==
    { MkNode(StrA, 0, StrA, KSTAT_TYPE_NAMED, StrB, 1, SizeofNamed, <<NamedInt>>),
      MkNode(StrA, 1, StrAB, KSTAT_TYPE_RAW, StrA, 2, 2, <<[byte |-> 1], [byte |-> 2]>>),
      MkNode(StrB, 1, StrAB, KSTAT_TYPE_INTR, StrBad, 2, SizeofIntr, <<IntrSample>>),
      MkNode(StrBad, 0, StrA, KSTAT_TYPE_NAMED, StrB, 1, SizeofNamed, <<NamedInt>>),
      MkNode(StrB, 0, StrAB, 99, StrB, 0, 0, <<>>),
      MkNode(StrB, 0, StrFull, KSTAT_TYPE_NAMED, StrB, 1, SizeofNamed, <<NamedInt>>) }

\* The kernel keeps one kstat per (module, instance, name).
Distinct(ch) == \A i, j \in 1..Len(ch) : i # j => ch[i] # ch[j]
WalkChains == {ch \in SeqsUpTo(WalkNodes, MaxChain) : Distinct(ch)}


\* Payload sizes in bytes around the multiples of an element size.
Sizes(sz) == {k * sz : k \in 0..MaxEnts} \cup {sz - 1, sz + 1}

\* One record of each type, with every declared count and payload size; the
\* payload holds the whole elements that fit in its size.
PayloadNodes(type, sz, samples) ==
    { MkNode(StrA, 0, StrA, type, StrB, nd, size, kmem) :
        <<nd, size, kmem>> \in
          { t \in (0..MaxNdata) \X Sizes(sz) \X SeqsUpTo(samples, MaxEnts + 1) :
              Len(t[3]) = t[2] \div sz } }

RawNodes ==
    { MkNode(StrA, 0, StrA, KSTAT_TYPE_RAW, StrB, nd, size,
             [i \in 1..size |-> [byte |-> i]]) :
        nd \in 0..MaxNdata, size \in 0..(MaxEnts + 1) }

DecodeNodes ==
    RawNodes
    \cup PayloadNodes(KSTAT_TYPE_NAMED, SizeofNamed, NamedSamples)
    \cup PayloadNodes(KSTAT_TYPE_INTR, SizeofIntr, {IntrSample})
    \cup PayloadNodes(KSTAT_TYPE_IO, SizeofIo, {IoSample})
    \cup PayloadNodes(KSTAT_TYPE_TIMER, SizeofTimer, TimerSamples)

\* ------------------------------------------------------------------ state
VARIABLES
    kernel,   \* the kernel's list of kstats
    live,     \* the contexts kstat_open gave and kstat_close has not yet freed
    ctl,      \* Ctl.ctl of the caller's Ctl value: a context, 0 when it has none
    chain,    \* (*ctl).kc_chain: the nodes of the handle's snapshot
    iter,     \* the Iter / Filter<Iter> value the caller holds
    out,      \* the Kstat values the current walk has yielded
    res,      \* what the last call gave, when that call was Ctl::read
    last,     \* "new" / "update" when that was the last call and it returned Err
    pc,       \* "run", "panicking" (unwinding a panic), "dead"
    misuse,   \* a libkstat call was made on a context that is not live
    build     \* which ffi module libkstat-sys was compiled with

vars == <<kernel, live, ctl, chain, iter, out, res, last, pc, misuse, build>>

NoIter == [live |-> FALSE, kstat |-> NULL, done |-> FALSE, filter |-> FALSE,
           module |-> NoneStr, instance |-> NoneInt, name |-> NoneStr]

\* libkstat-sys exports native_ffi (the functions of libkstat), or stub_ffi
\* when built off illumos with the feature "stubs".
Builds == {"native", "stub"}

InitWith(chains) ==
    /\ kernel \in chains
    /\ build \in Builds
    /\ live = {}
    /\ ctl = 0
    /\ chain = <<>>
    /\ iter = NoIter
    /\ out = <<>>
    /\ res = NoRes
    /\ last = ""
    /\ pc = "run"
    /\ misuse = FALSE

\* The kernel exports a chain of several kstats.
Init == InitWith(WalkChains)

\* The kernel exports one kstat, of any type, count, size and payload.
InitDecode == InitWith(SeqsOf(DecodeNodes, 1))

\* ------------------------------------------------------------- operations
\* The address kstat_open returns: the allocator reuses a freed context.
TheCtx == 1

\* A libkstat call on context kc: calling it on a freed context is misuse.
Misuse(kc) == misuse \/ kc \notin live

\* The borrows of the handle (the Iter, the Kstat values, the Data) are gone.
Released ==
    /\ iter' = NoIter
    /\ out' = <<>>
    /\ res' = NoRes

\* Ctl::new: kstat_open gives a context with the kernel's chain, or null.
\* The kstat_open of stub_ffi is errfn(), which panics: Ctl::new does not
\* return. (The other stubs panic too, but are called on a Ctl only, which
\* the stub build never has.)
Ctl_new ==
    /\ pc = "run"
    /\ ctl = 0
    /\ IF build = "stub"
       THEN /\ pc' = "panicking"
            /\ UNCHANGED <<live, ctl, chain, last>>
       ELSE /\ \/ /\ live' = live \cup {TheCtx}
                  /\ ctl' = TheCtx
                  /\ chain' = kernel
                  /\ last' = ""
               \/ /\ last' = "new"
                  /\ UNCHANGED <<live, ctl, chain>>
            /\ UNCHANGED pc
    /\ UNCHANGED <<kernel, iter, out, res, misuse, build>>

\* Ctl::update that forgets self on the error path instead of dropping it.
Ctl_update_Leak ==
    /\ pc = "run"
    /\ ctl # 0
    /\ \/ /\ \E gone \in (IF chain = <<>> THEN {FALSE} ELSE {FALSE, TRUE}) :
                /\ chain' = IF gone THEN Tail(chain) ELSE chain
                /\ kernel' = IF gone THEN Tail(kernel) ELSE kernel
          /\ last' = ""
          /\ misuse' = Misuse(ctl)
          /\ UNCHANGED <<live, ctl>>
       \/ /\ last' = "update"
          /\ misuse' = Misuse(ctl)
          /\ ctl' = 0
          /\ chain' = <<>>
          /\ UNCHANGED <<kernel, live>>
    /\ Released
    /\ UNCHANGED <<pc, build>>

\* Ctl::update(self): kstat_chain_update brings the chain in line with the
\* kernel, which may have removed its first kstat; on -1 the error is
\* returned and self, which was moved in, is dropped.
Ctl_update ==
    /\ pc = "run"
    /\ ctl # 0
    /\ \/ /\ \E gone \in (IF chain = <<>> THEN {FALSE} ELSE {FALSE, TRUE}) :
                /\ chain' = IF gone THEN Tail(chain) ELSE chain
                /\ kernel' = IF gone THEN Tail(kernel) ELSE kernel
          /\ last' = ""
          /\ misuse' = Misuse(ctl)
          /\ UNCHANGED <<live, ctl>>
       \/ /\ last' = "update"
          /\ misuse' = Misuse(ctl)
          /\ live' = live \ {ctl}
          /\ ctl' = 0
          /\ chain' = <<>>
          /\ UNCHANGED kernel
    /\ Released
    /\ UNCHANGED <<pc, build>>

\* impl Drop for Ctl
Ctl_drop ==
    /\ pc = "run"
    /\ ctl # 0
    /\ misuse' = Misuse(ctl)
    /\ live' = live \ {ctl}
    /\ ctl' = 0
    /\ chain' = <<>>
    /\ Released
    /\ UNCHANGED <<kernel, last, pc, build>>

\* (*self.ctl).kc_chain
KcChain == IF chain = <<>> THEN NULL ELSE 1
\* ks_next of the node at p
KsNext(ch, p) == IF p < Len(ch) THEN p + 1 ELSE NULL

\* The caller starts a walk when it holds no iterator, or has run the one it
\* holds to its end.
NoWalk == ~iter.live \/ iter.done

\* Ctl::iter
Ctl_iter ==
    /\ pc = "run"
    /\ ctl # 0
    /\ NoWalk
    /\ iter' = [NoIter EXCEPT !.live = TRUE, !.kstat = KcChain]
    /\ out' = <<>>
    /\ res' = NoRes
    /\ UNCHANGED <<kernel, live, ctl, chain, last, pc, misuse, build>>

\* Ctl::filter
Ctl_filter ==
    /\ pc = "run"
    /\ ctl # 0
    /\ NoWalk
    /\ \E module \in {NoneStr, Some(StrA)}, instance \in {NoneInt, Some(0)},
          name \in {NoneStr, Some(StrA)} :
          iter' = [live |-> TRUE, kstat |-> KcChain, done |-> FALSE, filter |-> TRUE,
                   module |-> module, instance |-> instance, name |-> name]
    /\ out' = <<>>
    /\ res' = NoRes
    /\ UNCHANGED <<kernel, live, ctl, chain, last, pc, misuse, build>>

\* impl Iterator for Iter, next(): from pointer p, the item (or none) and the
\* pointer left in self.kstat.
RECURSIVE Iter_next(_, _)
Iter_next(ch, p) ==
    IF p = NULL THEN [some |-> FALSE, item |-> <<>>, kstat |-> NULL]
    ELSE LET ks == Kstat_try_from(ch[p], p)
         IN  IF ks.ok THEN [some |-> TRUE, item |-> ks.val, kstat |-> KsNext(ch, p)]
             ELSE Iter_next(ch, KsNext(ch, p))

\* Filter<Iter, P>::next(): the next item of the inner iterator that the
\* predicate accepts.
RECURSIVE Filter_next(_, _, _)
Filter_next(ch, p, it) ==
    LET n == Iter_next(ch, p)
    IN  IF ~n.some THEN n
        ELSE IF FilterPred(it.module, it.instance, it.name, n.item) THEN n
        ELSE Filter_next(ch, n.kstat, it)

\* One call of next() on the iterator the caller holds.
Next_call ==
    /\ pc = "run"
    /\ iter.live
    /\ ~iter.done
    /\ LET n == IF iter.filter THEN Filter_next(chain, iter.kstat, iter)
                ELSE Iter_next(chain, iter.kstat)
       IN  /\ iter' = [iter EXCEPT !.kstat = n.kstat, !.done = ~n.some]
           /\ out' = IF n.some THEN Append(out, n.item) ELSE out
    /\ res' = NoRes
    /\ UNCHANGED <<kernel, live, ctl, chain, last, pc, misuse, build>>

\* The kernel's clock at a read of ks: not before the record's last
\* snapshot.
Now(ks) == {t \in ks.ks_snaptime..(ks.ks_snaptime + 1) : t <= MaxSnap}

\* kstat_read(kc, ksp, NULL) succeeding at time t: libkstat allocates ks_data
\* when the payload size is not 0, the kernel fills it and stamps ks_snaptime.
kstat_read(ks, t) ==
    [ks EXCEPT !.ks_data = IF ks.ks_data_size > 0
                           THEN [null |-> FALSE, mem |-> ks.kmem]
                           ELSE ks.ks_data,
               !.ks_snaptime = t]

\* Kstat::read that leaves the descriptor's ks_snaptime as it was.
Kstat_read_Stale(self, ch) == self

\* Kstat::read after kstat_read succeeded
Kstat_read(self, ch) == [self EXCEPT !.ks_snaptime = ch[self.ks].ks_snaptime]

\* Ctl::read on the Kstat the walk yielded last: Kstat::read, then
\* Kstat::data.
Ctl_read ==
    /\ pc = "run"
    /\ ctl # 0
    /\ out # <<>>
    /\ misuse' = Misuse(ctl)
    /\ LET i == Len(out)
       IN  \/ /\ res' = ErrRes(IoError)
              /\ UNCHANGED <<chain, out, pc>>
           \/ \E t \in Now(chain[out[i].ks]) :
              LET p == out[i].ks
                  ch == [chain EXCEPT ![p] = kstat_read(chain[p], t)]
                  kstat == Kstat_read(out[i], ch)
              IN  /\ chain' = ch
                  /\ out' = [out EXCEPT ![i] = kstat]
                  /\ \E r \in Kstat_data(kstat, ch) :
                        /\ res' = r
                        /\ pc' = IF r.kind = "Panic" THEN "panicking" ELSE pc
    /\ UNCHANGED <<kernel, live, ctl, iter, last, build>>

\* A panic unwinds the caller's stack: its Ctl, when it has one, is dropped
\* on the way.
Unwind ==
    /\ pc = "panicking"
    /\ misuse' = IF ctl = 0 THEN misuse ELSE Misuse(ctl)
    /\ live' = live \ {ctl}
    /\ ctl' = 0
    /\ chain' = <<>>
    /\ iter' = NoIter
    /\ out' = <<>>
    /\ pc' = "dead"
    /\ UNCHANGED <<kernel, res, last, build>>

Next ==
    \/ Ctl_new
    \/ Ctl_update
    \/ Ctl_drop
    \/ Ctl_iter
    \/ Ctl_filter
    \/ Next_call
    \/ Ctl_read
    \/ Unwind

Spec == Init /\ [][Next]_vars

SpecDecode == InitDecode /\ [][Next]_vars

\* ----------------------------------------------------------------- claims
\* The sequence a whole walk from pointer p yields.
RECURSIVE IterAll(_, _)
IterAll(ch, p) ==
    LET n == Iter_next(ch, p)
    IN  IF n.some THEN <<n.item>> \o IterAll(ch, n.kstat) ELSE <<>>

WalkDone == iter.live /\ ~iter.filter /\ iter.done
FilterDone == iter.live /\ iter.filter /\ iter.done

\* C1: the context a successful kstat_open gave is closed exactly once: it is
\* live exactly while a Ctl value holds it, no libkstat call (kstat_close
\* included) is made on a context that is not live, and after a failed
\* Ctl::new or a failed Ctl::update the caller holds no handle.
C1_ReleasedExactlyOnce ==
    /\ live = (IF ctl = 0 THEN {} ELSE {ctl})
    /\ ~misuse
    /\ last \in {"new", "update"} => ctl = 0

\* C1 witness: a refresh failed after a successful open; the handle is gone
\* and its context closed.
C1_Witness == last = "update" /\ ctl = 0 /\ live = {} /\ ~misuse

\* Whether descriptor d matches a criterion that was supplied.
MatchesSupplied(it, d) ==
    \/ it.module.some /\ it.module.v = d.ks_module
    \/ it.instance.some /\ it.instance.v = d.ks_instance
    \/ it.name.some /\ it.name.v = d.ks_name
AnySupplied(it) == it.module.some \/ it.instance.some \/ it.name.some

\* C2: a finished filter walk has yielded, in iterate order, exactly the
\* descriptors of iterate that match at least one supplied criterion, and all
\* of iterate's descriptors when no criterion was supplied.
C2_FilterMatchesSupplied ==
    FilterDone =>
      out = IF AnySupplied(iter)
            THEN SelectSeq(IterAll(chain, KcChain), LAMBDA d : MatchesSupplied(iter, d))
            ELSE IterAll(chain, KcChain)

ExactMatch(it, d) ==
    /\ it.module.v = d.ks_module
    /\ it.instance.v = d.ks_instance
    /\ it.name.v = d.ks_name

\* C3: with all three criteria supplied and a descriptor of the chain equal to
\* them in module, instance and name, the first descriptor filter yields is
\* that one.
C3_FirstIsExactMatch ==
    ( /\ iter.live /\ iter.filter
      /\ iter.module.some /\ iter.instance.some /\ iter.name.some
      /\ out # <<>>
      /\ \E i \in 1..Len(IterAll(chain, KcChain)) :
            ExactMatch(iter, IterAll(chain, KcChain)[i]) )
    => ExactMatch(iter, out[1])

\* C4: every descriptor the walk yielded carries the fields of its node:
\* module, instance, name, class, type tag, creation and last-update time.
C4_DescriptorCarriesNodeFields ==
    \A i \in 1..Len(out) :
      LET d == out[i]
          k == chain[d.ks]
      IN  /\ d.ks_module = CStrBytes(k.ks_module)
          /\ d.ks_instance = k.ks_instance
          /\ d.ks_name = CStrBytes(k.ks_name)
          /\ d.ks_class = CStrBytes(k.ks_class)
          /\ Type_try_from(k.ks_type) = Ok(d.ks_type)
          /\ d.ks_crtime = k.ks_crtime
          /\ d.ks_snaptime = k.ks_snaptime

Reverse(o) == IF o = Less THEN Greater ELSE IF o = Greater THEN Less ELSE Equal

\* The lexicographic comparison of (class, module, instance, name) of two
\* chain nodes.
NodeKeyCmp(ka, kb) ==
    ThenWith(StrCmp(CStrBytes(ka.ks_class), CStrBytes(kb.ks_class)),
    ThenWith(StrCmp(CStrBytes(ka.ks_module), CStrBytes(kb.ks_module)),
    ThenWith(IntCmp(ka.ks_instance, kb.ks_instance),
             StrCmp(CStrBytes(ka.ks_name), CStrBytes(kb.ks_name)))))

\* C5: on the descriptors a walk yielded, cmp is reflexive, antisymmetric and
\* transitive, and equals the lexicographic comparison of the (class, module,
\* instance, name) of their chain nodes.
C5_OrderByClassModuleInstanceName ==
    \A i, j, l \in 1..Len(out) :
      LET a == out[i]
          b == out[j]
          c == out[l]
      IN  /\ Kstat_cmp(a, a) = Equal
          /\ Kstat_cmp(a, b) = Reverse(Kstat_cmp(b, a))
          /\ (Kstat_cmp(a, b) = Less /\ Kstat_cmp(b, c) = Less) => Kstat_cmp(a, c) = Less
          /\ Kstat_cmp(a, b) = NodeKeyCmp(chain[a.ks], chain[b.ks])

\* A node with valid UTF-8 in its three text fields and a type tag of the
\* enumeration.
WellFormed(k) ==
    /\ Utf8Valid(CStrBytes(k.ks_module))
    /\ Utf8Valid(CStrBytes(k.ks_name))
    /\ Utf8Valid(CStrBytes(k.ks_class))
    /\ k.ks_type \in {KSTAT_TYPE_RAW, KSTAT_TYPE_NAMED, KSTAT_TYPE_INTR,
                      KSTAT_TYPE_IO, KSTAT_TYPE_TIMER}

\* C6: a finished walk of iterate has yielded, once each and in chain order,
\* exactly the well-formed nodes of the chain; every other node was skipped
\* and the walk went on past it.
C6_WalkYieldsExactlyWellFormed ==
    WalkDone =>
      [i \in 1..Len(out) |-> out[i].ks]
        = SelectSeq([p \in 1..Len(chain) |-> p], LAMBDA p : WellFormed(chain[p]))

\* C7: Ctl::read of a record whose payload libkstat allocated returns to its
\* caller, with a decoded value or an error, whatever count, size and payload
\* the kernel gave; it never panics.
C7_ReadAlwaysReturns ==
    (out # <<>> /\ ~chain[out[Len(out)].ks].ks_data.null)
      => (res.kind \in {"None", "Ok", "Err"} /\ pc = "run")

\* C8: a decoded value has the variant of the type tag of the descriptor that
\* was read, never Data::Null, and a successful read of the same descriptor
\* right after a successful read gives the same variant.
C8_VariantMatchesType ==
    [][ /\ res'.kind = "Ok" =>
            /\ out' # <<>>
            /\ res'.variant = out'[Len(out')].ks_type
            /\ res'.variant \in {"Raw", "Named", "Intr", "Io", "Timer"}
        /\ (res.kind = "Ok" /\ res'.kind = "Ok") => res'.variant = res.variant
      ]_vars

\* C8 witness: a timer kstat with two records was read and decoded, the
\* kernel's clock having advanced.
C8_Witness ==
    /\ res.kind = "Ok" /\ res.variant = "Timer" /\ Len(res.items) = 2
    /\ chain[out[1].ks].ks_snaptime = MaxSnap

\* A type tag outside the enumeration raw, named, interrupt, io, timer.
BadTag(k) ==
    k.ks_type \notin {KSTAT_TYPE_RAW, KSTAT_TYPE_NAMED, KSTAT_TYPE_INTR,
                      KSTAT_TYPE_IO, KSTAT_TYPE_TIMER}

\* The walk has gone past position p of the chain.
Passed(p) == iter.live /\ (iter.kstat = NULL \/ iter.kstat > p)

\* C9: a record with a type tag outside the enumeration can be read, and the
\* read fails with InvalidType(tag): once the walk is past it the caller holds
\* its descriptor, and a read of that descriptor which reached libkstat gave
\* InvalidType(tag).
C9_ReadReportsInvalidType ==
    \A p \in 1..Len(chain) :
      (BadTag(chain[p]) /\ Passed(p) /\ ~iter.filter
         /\ Utf8Valid(CStrBytes(chain[p].ks_module))
         /\ Utf8Valid(CStrBytes(chain[p].ks_name)))
      => \E i \in 1..Len(out) :
           /\ out[i].ks = p
           /\ (i = Len(out) /\ res.kind # "None" /\ res # ErrRes(IoError))
                => res = ErrRes(InvalidType(chain[p].ks_type))

\* C9, amended: converting a record with a type tag outside the enumeration
\* (and valid module and name) fails with InvalidType(tag) and builds no
\* descriptor; the walk drops that error and skips the record, so no
\* descriptor refers to it, its payload is never fetched or interpreted, and
\* no Ctl::read returns InvalidType.
C9_InvalidTypeIsSkipped ==
    /\ \A p \in 1..Len(chain) :
         BadTag(chain[p]) =>
           /\ ~Kstat_try_from(chain[p], p).ok
           /\ (Utf8Valid(CStrBytes(chain[p].ks_module))
                 /\ Utf8Valid(CStrBytes(chain[p].ks_name)))
                => Kstat_try_from(chain[p], p) = Err(InvalidType(chain[p].ks_type))
           /\ \A i \in 1..Len(out) : out[i].ks # p
           /\ chain[p].ks_data.null
    /\ res.err.kind # "InvalidType"

\* C9 witness: the walk skipped a record with tag 99 and yielded the record
\* after it, which was then read.
C9_Witness ==
    /\ WalkDone
    /\ \E p \in 1..Len(chain) :
         /\ chain[p].ks_type = 99
         /\ \E i \in 1..Len(out) : out[i].ks > p
    /\ res.kind = "Ok"

\* The node of the descriptor that was read last.
ReadNode == chain[out[Len(out)].ks]
NamedRead == out # <<>> /\ out[Len(out)].ks_type = "Named" /\ res.kind \in {"Ok", "Err"}
    /\ res # ErrRes(IoError)

\* C10: a named read uses min(declared count, payload size div entry size)
\* entries: a returned table has exactly that many entries, the decoded
\* entries of the payload in payload order, the slice built over the payload
\* has that many entries and ends within the payload, and an error comes from
\* one of those entries.
C10_NamedCountIsMin ==
    NamedRead =>
      LET ks == ReadNode
          m == IF ks.ks_ndata <= ks.ks_data_size \div SizeofNamed
               THEN ks.ks_ndata ELSE ks.ks_data_size \div SizeofNamed
      IN  /\ res.kind = "Ok" =>
                /\ Len(res.items) = m
                /\ res.extent = m
                /\ res.extent * SizeofNamed <= ks.ks_data_size
                /\ \A k \in 1..m : Named_try_from(ks.kmem[k]) = Ok(res.items[k])
          /\ res.kind = "Err" =>
                \E k \in 1..m :
                  /\ Named_try_from(ks.kmem[k]) = Err(res.err)
                  /\ \A h \in 1..(k - 1) : Named_try_from(ks.kmem[h]).ok

\* C10 witness: a table was returned for a record whose declared count is
\* larger than what its payload holds.
C10_Witness ==
    /\ NamedRead /\ res.kind = "Ok"
    /\ ReadNode.ks_ndata > ReadNode.ks_data_size \div SizeofNamed
    /\ Len(res.items) = 1

\* C10 witness of the empty payload: size 0, declared count not 0.
C10_WitnessEmpty ==
    /\ NamedRead /\ res.kind = "Ok"
    /\ ReadNode.ks_data_size = 0 /\ ReadNode.ks_ndata > 0

\* A step that is a call of Ctl::read: the only call on a live handle that
\* keeps the handle and leaves a result.
ReadStep == pc = "run" /\ ctl # 0 /\ ctl' = ctl /\ res' # NoRes

\* C11: when kstat_read fails, Ctl::read returns the OS error, the kernel has
\* filled in nothing and the descriptor is unchanged; when it succeeds, the
\* descriptor's ks_snaptime becomes the node's new ks_snaptime (the kernel's
\* time at the read), no other field of the descriptor changes, and this is
\* so whether Kstat::data then returns a value, an error, or panics.
C11_ReadFrame ==
    [][ReadStep =>
         LET i == Len(out)
             p == out[i].ks
         IN  IF res'.kind = "Err" /\ res'.err = IoError
             THEN out' = out /\ chain' = chain
             ELSE /\ chain'[p].ks_snaptime \in Now(chain[p])
                  /\ out' = [out EXCEPT ![i].ks_snaptime = chain'[p].ks_snaptime]
                  /\ res'.err # IoError]_vars

\* C11 witness: a read whose decode failed on a name that is no UTF-8 has
\* left the kernel's later timestamp in the descriptor.
C11_Witness ==
    /\ res.kind = "Err"
    /\ res.err = InvalidString
    /\ out # <<>>
    /\ out[Len(out)].ks_snaptime = MaxSnap
    /\ chain[out[Len(out)].ks].ks_snaptime = MaxSnap

\* C12: in the stub build every operation of the handle returns to its
\* caller (with a failure): the program never panics, and a call of Ctl::new
\* leaves the caller with an error.
C12_StubReturnsFailure == build = "stub" => pc = "run"

\* What makes an entry of a named kstat decodable.
NameOk(e) == Utf8Valid(CStrBytes(e.name))
TagOk(e) ==
    e.data_type \in {KSTAT_DATA_CHAR, KSTAT_DATA_INT32, KSTAT_DATA_UINT32,
                     KSTAT_DATA_INT64, KSTAT_DATA_UINT64, KSTAT_DATA_STRING}
ValueOk(e) == e.data_type = KSTAT_DATA_STRING => Utf8Valid(CStrBytes(e.value.str))
Offending(e) == ~(NameOk(e) /\ TagOk(e) /\ ValueOk(e))

\* The usable entries of the named kstat that was read.
UsableEntries ==
    LET ks == ReadNode
        m == IF ks.ks_ndata <= ks.ks_data_size \div SizeofNamed
             THEN ks.ks_ndata ELSE ks.ks_data_size \div SizeofNamed
    IN  SubSeq(ks.ks_data.mem, 1, m)

\* The first offending entry of a sequence that has one.
FirstOffending(ents) ==
    ents[CHOOSE k \in 1..Len(ents) :
           Offending(ents[k]) /\ \A h \in 1..(k - 1) : ~Offending(ents[h])]

\* The raw tag a NamedType stands for.
TagOfNamedType(nt) ==
    CASE nt = "Char" -> KSTAT_DATA_CHAR
      [] nt = "Int32" -> KSTAT_DATA_INT32
      [] nt = "UInt32" -> KSTAT_DATA_UINT32
      [] nt = "Int64" -> KSTAT_DATA_INT64
      [] nt = "UInt64" -> KSTAT_DATA_UINT64
      [] nt = "String" -> KSTAT_DATA_STRING

\* A named read that returned gave a table exactly when no usable entry
\* offends, the table has one entry per usable entry, and data_type() of each
\* is the entry's raw tag.
NamedTableIffAllOk ==
    LET ents == UsableEntries
    IN  /\ res.kind = "Ok" <=> \A k \in 1..Len(ents) : ~Offending(ents[k])
        /\ res.kind = "Ok" =>
              /\ Len(res.items) = Len(ents)
              /\ \A k \in 1..Len(ents) :
                    TagOfNamedType(Named_data_type(res.items[k])) = ents[k].data_type

\* C13 as stated: a named read returns a table iff every usable entry has a
\* valid name, a tag of the closed set and (for a string) a valid value;
\* otherwise it fails with the error of the first offending entry, which is
\* InvalidString if its name is invalid and otherwise InvalidNamedType(tag).
C13_FirstOffendingNameElseTag ==
    NamedRead =>
      /\ NamedTableIffAllOk
      /\ res.kind = "Err" =>
            LET f == FirstOffending(UsableEntries)
            IN  res.err = IF ~NameOk(f) THEN InvalidString
                          ELSE InvalidNamedType(f.data_type)

\* C13 amended: as above, but the error of the first offending entry is
\* InvalidString if its name is invalid, otherwise InvalidNamedType(tag) if
\* its tag is outside the closed set, otherwise (a string entry whose value
\* is no UTF-8) InvalidString.
C13_FirstOffendingNameTagValue ==
    NamedRead =>
      /\ NamedTableIffAllOk
      /\ res.kind = "Err" =>
            LET f == FirstOffending(UsableEntries)
            IN  res.err = IF ~NameOk(f) THEN InvalidString
                          ELSE IF ~TagOk(f) THEN InvalidNamedType(f.data_type)
                          ELSE InvalidString

\* C13 witness: a read failed with InvalidString on a second entry whose name
\* is valid and whose tag is string, after a first entry that decoded.
C13_Witness ==
    /\ NamedRead
    /\ res.kind = "Err"
    /\ res.err = InvalidString
    /\ Len(UsableEntries) = 2
    /\ ~Offending(UsableEntries[1])
    /\ UsableEntries[2] = NamedBadStr

\* The last call was a read of a raw kstat whose kstat_read succeeded.
RawRead ==
    /\ out # <<>>
    /\ out[Len(out)].ks_type = "Raw"
    /\ res # NoRes
    /\ res # ErrRes(IoError)

\* The chunks of a raw kstat with declared count n and payload size s are as
\* the claim has them: n chunks of width s div n, chunk k at offset
\* k * (s div n), within the payload.
RawChunksAsDeclared ==
    LET ks == ReadNode
        n == ks.ks_ndata
        s == ks.ks_data_size
    IN  /\ res.kind = "Ok"
        /\ res.variant = "Raw"
        /\ Len(res.items) = n
        /\ n > 0 =>
              LET w == s \div n
              IN  /\ n * w <= s
                  /\ \A k \in 1..n :
                        res.items[k] = SubSeq(ks.kmem, (k - 1) * w + 1, k * w)

\* C14: a read of a raw kstat with declared count 0 returns the empty
\* sequence whatever the payload size; with declared count n > 0 and payload
\* size s it returns n contiguous chunks of width s div n from the payload's
\* start, none past the payload's end (all empty when n > s).
C14_RawChunks == RawRead => RawChunksAsDeclared

\* Text a is a prefix of the byte sequence b.
IsPrefix(a, b) == Len(a) <= Len(b) /\ a = SubSeq(b, 1, Len(a))

\* C15: for every descriptor a walk has yielded, the scans of its node's
\* module and name for the terminator ended within the KSTAT_STRLEN bytes of
\* the field, and the descriptor's module and name are prefixes of the
\* field's bytes.
C15_TextWithinBuffer ==
    \A i \in 1..Len(out) :
      LET k == chain[out[i].ks]
      IN  /\ CStrScan(k.ks_module \o AfterModule(k)) <= KSTAT_STRLEN
          /\ CStrScan(k.ks_name \o AfterName(k)) <= KSTAT_STRLEN
          /\ IsPrefix(out[i].ks_module, k.ks_module)
          /\ IsPrefix(out[i].ks_name, k.ks_name)

====
